---- MODULE Spec2Model ----
(***************************************************************************)
(* brave_captcha_gen.py: generate_yolo_dataset_multiprocessed, the pool of *)
(* generate_single_sample jobs it runs for each split, and the files the   *)
(* jobs leave on disk.                                                     *)
(*                                                                         *)
(* The pixel buffer of generate_static_image is not modelled: an image     *)
(* file is either whole ("png") or cut short by a failed save ("partial"). *)
(* The brightness shift of line 59 only reaches the pixels, so it is not   *)
(* part of the state.  A label file holds the four fields of line 85 as    *)
(* the integers their six-decimal text denotes (millionths).               *)
(***************************************************************************)
EXTENDS Integers, Sequences, FiniteSets, TLC

\* ---------------------------------------------------------------- bounds
\* Largest number of samples of a run, all splits together.
MaxSamples == 2
\* Largest pool size.
MaxWorkers == 2
\* Largest image width and height.
MaxDim == 2
\* Largest circle radius.
MaxRad == 1
\* Samples per split that a previous run left in the output directory, when
\* the run does not start on an empty one.
PriorSamples == 1

\* ------------------------------------------------------ program constants
\* The splits dictionary, in its insertion order (the order of the for loop).
splits == <<"train", "val", "test">>

NumSplits == Len(splits)

\* The ":05d" of the file names.
PadWidth == 5

\* The ":.6f" of the label line: a field is printed in millionths.
Micro == 1000000

\* The "// 10" of the progress test.
ProgressDiv == 10

VARIABLES
    img_width,      \* argument
    img_height,     \* argument
    circle_rad,     \* argument
    num_samples,    \* [1..NumSplits -> Nat]: num_train/val/test_samples
    max_workers,    \* argument
    prior,          \* samples per split already on disk when the run starts
    pc,             \* the orchestrator's position: "mkdir" (line 115), "pool"
                    \* (inside the with block), "complete", "error"
    cur,            \* the split the for loop of line 110 is at
    nextIdx,        \* the next index the list comprehension of line 122 submits
    dirs,           \* the directories that exist
    files,          \* the files that exist, with their content
    job,            \* every future of the run: its state, position and center
    observed,       \* the futures as_completed has yielded
    nOK,            \* per split: results whose future.result() returned
    nFail,          \* per split: results whose future.result() raised
    reports         \* per split: the values i + 1 printed by line 131

vars == <<img_width, img_height, circle_rad, num_samples, max_workers, prior,
          pc, cur, nextIdx, dirs, files, job, observed, nOK, nFail, reports>>

args == <<img_width, img_height, circle_rad, num_samples, max_workers, prior>>

\* ---------------------------------------------------------------- helpers
\* The digits of n, most significant first.
RECURSIVE Digits(_)
Digits(n) == IF n < 10 THEN <<n>> ELSE Append(Digits(n \div 10), n % 10)

\* Python's f"{n:05d}": the digits of n, zero-padded on the left to 5 places
\* (and longer than 5 when n needs more).
RECURSIVE PadLeft(_, _)
PadLeft(ds, w) == IF Len(ds) >= w THEN ds ELSE PadLeft(<<0>> \o ds, w)

Fmt05d(n) == PadLeft(Digits(n), PadWidth)

\* A variant of img_filepath that numbers the images from 1.
img_filepath_from1(s, i) == <<splits[s], "images", Fmt05d(i + 1), "png">>

\* os.path.join(images_dir, f"image_{sample_index:05d}.png")
img_filepath(s, i) == <<splits[s], "images", Fmt05d(i), "png">>

\* A variant of label_filepath that leaves the index out of the name.
label_filepath_shared(s, i) == <<splits[s], "labels", Fmt05d(0), "txt">>

\* os.path.join(labels_dir, f"image_{sample_index:05d}.txt")
label_filepath(s, i) == <<splits[s], "labels", Fmt05d(i), "txt">>

images_dir(s) == <<splits[s], "images">>
labels_dir(s) == <<splits[s], "labels">>

\* f"{num / den:.6f}" read back as millionths (rounded to nearest).
Fmt6f(num, den) == (2 * num * Micro + den) \div (2 * den)

\* The label line of line 85 for a circle centred at center_x.
LabelLine(center_x) ==
    LET circle_center_y_coord == img_height \div 2
    IN  [tag |-> "label",
         box |-> << Fmt6f(center_x, img_width),
                    Fmt6f(circle_center_y_coord, img_height),
                    Fmt6f(2 * circle_rad, img_width),
                    Fmt6f(2 * circle_rad, img_height) >>]

Content(t) == [tag |-> t, box |-> <<>>]

\* The file system after path is created or overwritten with content c.
WriteFile(fs, path, c) ==
    [p \in (DOMAIN fs) \cup {path} |-> IF p = path THEN c ELSE fs[p]]

\* What a previous run of k samples per split left behind.
PriorDirs(k) ==
    IF k = 0 THEN {}
    ELSE UNION {{images_dir(s), labels_dir(s)} : s \in 1..NumSplits}

PriorFiles(k) ==
    LET paths == UNION {{img_filepath(s, i), label_filepath(s, i)} :
                        s \in 1..NumSplits, i \in 0..(k - 1)}
    IN  [p \in paths |-> Content("old")]

\* The samples of the splits 1..s together.
RECURSIVE TotalSamples(_, _)
TotalSamples(n, s) == IF s = 0 THEN 0 ELSE n[s] + TotalSamples(n, s - 1)

\* The (split, index) pairs a future can have: one index more than any
\* split's count, so that a submit past range(num_samples) would show.
Slots == {<<s, i>> : s \in 1..NumSplits, i \in 0..MaxSamples}

Fresh == [st |-> "Unsubmitted", at |-> "none", cx |-> 0]

\* The list futures of line 122, as built so far for split s.
Futures(s) == {j \in Slots : j[1] = s /\ job[j].st # "Unsubmitted"}

\* The calls of split s that a worker process is executing.
Running(s) == {j \in Futures(s) : job[j].st = "Running"}

\* The step of the progress test of line 130: num_samples // 10 or 1.
ProgressStep(n) == IF n \div ProgressDiv = 0 THEN 1 ELSE n \div ProgressDiv

\* A split is Done once the for loop has left it.
SplitDone(s) == pc = "complete" \/ (pc # "error" /\ s < cur)

\* ------------------------------------------------------------------- Init
Init ==
    /\ img_width \in 1..MaxDim
    /\ img_height \in 1..MaxDim
    /\ circle_rad \in 1..MaxRad
    /\ num_samples \in {n \in [1..NumSplits -> 0..MaxSamples] :
                          TotalSamples(n, NumSplits) <= MaxSamples}
    /\ max_workers \in 1..MaxWorkers
    /\ prior \in {0, PriorSamples}
    /\ pc = "mkdir"
    /\ cur = 1
    /\ nextIdx = 0
    /\ dirs = PriorDirs(prior)
    /\ files = PriorFiles(prior)
    /\ job = [j \in Slots |-> Fresh]
    /\ observed = {}
    /\ nOK = [s \in 1..NumSplits |-> 0]
    /\ nFail = [s \in 1..NumSplits |-> 0]
    /\ reports = [s \in 1..NumSplits |-> {}]

\* ----------------------------------------------------------- orchestrator
\* Lines 111-117: both os.makedirs calls succeed.
MakeDirs ==
    /\ pc = "mkdir"
    /\ dirs' = dirs \cup {images_dir(cur), labels_dir(cur)}
    /\ pc' = "pool"
    /\ UNCHANGED <<args, cur, nextIdx, files, job, observed, nOK, nFail, reports>>

\* Lines 115-116: an os.makedirs raises; the exception leaves the function.
MakeDirsFail ==
    /\ pc = "mkdir"
    /\ \/ dirs' = dirs
       \/ dirs' = dirs \cup {images_dir(cur)}
    /\ pc' = "error"
    /\ UNCHANGED <<args, cur, nextIdx, files, job, observed, nOK, nFail, reports>>

\* Lines 122-125: executor.submit of the next index.
Submit ==
    /\ pc = "pool"
    /\ nextIdx < num_samples[cur]
    /\ job' = [job EXCEPT ![<<cur, nextIdx>>].st = "Pending"]
    /\ nextIdx' = nextIdx + 1
    /\ UNCHANGED <<args, pc, cur, dirs, files, observed, nOK, nFail, reports>>

\* The list comprehension of lines 122-125 has submitted every index, and
\* the loop over as_completed(futures) of line 127 is running.
Collecting == pc = "pool" /\ nextIdx = num_samples[cur]

\* Lines 127-132: as_completed yields a future whose result() returns.
ObserveSuccess(j) ==
    /\ Collecting
    /\ j \in Futures(cur) \ observed
    /\ job[j].st = "Completed"
    /\ LET i == nOK[cur] + nFail[cur]
       IN  /\ nOK' = [nOK EXCEPT ![cur] = @ + 1]
           /\ reports' = IF (i + 1) % ProgressStep(num_samples[cur]) = 0
                         THEN [reports EXCEPT ![cur] = @ \cup {i + 1}]
                         ELSE reports
    /\ observed' = observed \cup {j}
    /\ UNCHANGED <<args, pc, cur, nextIdx, dirs, files, job, nFail>>

\* A variant of ObserveFailure in which the exception ends the split: the
\* loop over as_completed is left and the for loop goes on.
ObserveFailure_Break(j) ==
    /\ Collecting
    /\ j \in Futures(cur) \ observed
    /\ job[j].st = "Failed"
    /\ nFail' = [nFail EXCEPT ![cur] = @ + 1]
    /\ observed' = observed \cup {j}
    /\ IF cur < NumSplits
       THEN /\ cur' = cur + 1
            /\ pc' = "mkdir"
            /\ nextIdx' = 0
       ELSE /\ pc' = "complete"
            /\ UNCHANGED <<cur, nextIdx>>
    /\ UNCHANGED <<args, dirs, files, job, nOK, reports>>

\* A variant of ObserveFailure without the except clause: the exception
\* leaves generate_yolo_dataset_multiprocessed.
ObserveFailure_Raise(j) ==
    /\ Collecting
    /\ j \in Futures(cur) \ observed
    /\ job[j].st = "Failed"
    /\ observed' = observed \cup {j}
    /\ pc' = "raised"
    /\ UNCHANGED <<args, cur, nextIdx, dirs, files, job, nOK, nFail, reports>>

\* Lines 127-129, 133-135: as_completed yields a future whose result() raises.
ObserveFailure(j) ==
    /\ Collecting
    /\ j \in Futures(cur) \ observed
    /\ job[j].st = "Failed"
    /\ nFail' = [nFail EXCEPT ![cur] = @ + 1]
    /\ observed' = observed \cup {j}
    /\ UNCHANGED <<args, pc, cur, nextIdx, dirs, files, job, nOK, reports>>

\* A variant of EndSplit that does not wait for the results of the split.
EndSplit_NoWait ==
    /\ Collecting
    /\ IF cur < NumSplits
       THEN /\ cur' = cur + 1
            /\ pc' = "mkdir"
            /\ nextIdx' = 0
       ELSE /\ pc' = "complete"
            /\ UNCHANGED <<cur, nextIdx>>
    /\ UNCHANGED <<args, dirs, files, job, observed, nOK, nFail, reports>>

\* Lines 127, 121, 110: as_completed is exhausted, the with block shuts the
\* pool down, and the for loop takes the next split or ends (line 137).
EndSplit ==
    /\ Collecting
    /\ Futures(cur) \subseteq observed
    /\ IF cur < NumSplits
       THEN /\ cur' = cur + 1
            /\ pc' = "mkdir"
            /\ nextIdx' = 0
       ELSE /\ pc' = "complete"
            /\ UNCHANGED <<cur, nextIdx>>
    /\ UNCHANGED <<args, dirs, files, job, observed, nOK, nFail, reports>>

\* ------------------------------------------------------------ worker pool
\* A variant of StartJob that starts a process for every pending call.
StartJob_Unbounded(j) ==
    /\ job[j].st = "Pending"
    /\ job' = [job EXCEPT ![j] = [st |-> "Running", at |-> "draw", cx |-> 0]]
    /\ UNCHANGED <<args, pc, cur, nextIdx, dirs, files, observed, nOK, nFail, reports>>

\* ProcessPoolExecutor(max_workers): an idle worker process takes the oldest
\* pending call.
StartJob(j) ==
    /\ job[j].st = "Pending"
    /\ \A k \in Futures(j[1]) : job[k].st = "Pending" => j[2] <= k[2]
    /\ Cardinality(Running(j[1])) < max_workers
    /\ job' = [job EXCEPT ![j] = [st |-> "Running", at |-> "draw", cx |-> 0]]
    /\ UNCHANGED <<args, pc, cur, nextIdx, dirs, files, observed, nOK, nFail, reports>>

\* Lines 57-59: random.randint(circle_rad, img_width - circle_rad) returns.
JobDraw(j) ==
    /\ job[j].st = "Running" /\ job[j].at = "draw"
    /\ \E center_x \in circle_rad..(img_width - circle_rad) :
          job' = [job EXCEPT ![j] = [st |-> "Running", at |-> "image", cx |-> center_x]]
    /\ UNCHANGED <<args, pc, cur, nextIdx, dirs, files, observed, nOK, nFail, reports>>

\* Line 57: random.randint raises ValueError on an empty range.
JobDrawFail(j) ==
    /\ job[j].st = "Running" /\ job[j].at = "draw"
    /\ circle_rad > img_width - circle_rad
    /\ job' = [job EXCEPT ![j] = [st |-> "Failed", at |-> "none", cx |-> 0]]
    /\ UNCHANGED <<args, pc, cur, nextIdx, dirs, files, observed, nOK, nFail, reports>>

\* A variant of JobSaveImage that builds the image and does not save it.
JobSaveImage_NoSave(j) ==
    /\ job[j].st = "Running" /\ job[j].at = "image"
    /\ job' = [job EXCEPT ![j].at = "label"]
    /\ UNCHANGED <<args, pc, cur, nextIdx, dirs, files, observed, nOK, nFail, reports>>

\* Lines 67-75, 26-43: the image is built and img.save succeeds.
JobSaveImage(j) ==
    /\ job[j].st = "Running" /\ job[j].at = "image"
    /\ files' = WriteFile(files, img_filepath(j[1], j[2]), Content("png"))
    /\ job' = [job EXCEPT ![j].at = "label"]
    /\ UNCHANGED <<args, pc, cur, nextIdx, dirs, observed, nOK, nFail, reports>>

\* Line 42: img.save raises; the file is untouched (the open failed, or the
\* file save had created was removed) or is left cut short.
JobSaveImageFail(j) ==
    /\ job[j].st = "Running" /\ job[j].at = "image"
    /\ \/ files' = files
       \/ files' = WriteFile(files, img_filepath(j[1], j[2]), Content("partial"))
    /\ job' = [job EXCEPT ![j] = [st |-> "Failed", at |-> "none", cx |-> 0]]
    /\ UNCHANGED <<args, pc, cur, nextIdx, dirs, observed, nOK, nFail, reports>>

\* Lines 78-87: the label line is written and the job returns True.
JobWriteLabel(j) ==
    /\ job[j].st = "Running" /\ job[j].at = "label"
    /\ files' = WriteFile(files, label_filepath(j[1], j[2]), LabelLine(job[j].cx))
    /\ job' = [job EXCEPT ![j] = [st |-> "Completed", at |-> "none", cx |-> 0]]
    /\ UNCHANGED <<args, pc, cur, nextIdx, dirs, observed, nOK, nFail, reports>>

\* Lines 84-85: open raises (nothing is written), or open has truncated the
\* file and f.write raises (an empty file is left).
JobWriteLabelFail(j) ==
    /\ job[j].st = "Running" /\ job[j].at = "label"
    /\ \/ files' = files
       \/ files' = WriteFile(files, label_filepath(j[1], j[2]), Content("empty"))
    /\ job' = [job EXCEPT ![j] = [st |-> "Failed", at |-> "none", cx |-> 0]]
    /\ UNCHANGED <<args, pc, cur, nextIdx, dirs, observed, nOK, nFail, reports>>

\* ------------------------------------------------------------------- Next
Next ==
    \/ MakeDirs
    \/ MakeDirsFail
    \/ Submit
    \/ EndSplit
    \/ \E j \in Slots :
          \/ ObserveSuccess(j)
          \/ ObserveFailure(j)
          \/ StartJob(j)
          \/ JobDraw(j)
          \/ JobDrawFail(j)
          \/ JobSaveImage(j)
          \/ JobSaveImageFail(j)
          \/ JobWriteLabel(j)
          \/ JobWriteLabelFail(j)

Spec == Init /\ [][Next]_vars

\* The scheduler runs every process that can take a step: the orchestrator
\* and the workers are separate processes, and a job is a bounded computation.
LiveSpec == Spec /\ WF_vars(Next)

\* ----------------------------------------------------------------- claims
\* The indices range(num_samples) of split s.
Indices(s) == 0..(num_samples[s] - 1)

\* The names the dataset layout gives the two files of sample i of split s.
ImageOf(s, i) == <<splits[s], "images", Fmt05d(i), "png">>
LabelOf(s, i) == <<splits[s], "labels", Fmt05d(i), "txt">>

\* The files of one directory of split s.
FilesIn(s, d) == {p \in DOMAIN files : p[1] = splits[s] /\ p[2] = d}

\* The indices of split s whose job failed.
FailedIn(s) == {i \in Indices(s) : job[<<s, i>>].st = "Failed"}

\* The results of split s observed so far.
Seen(s) == nOK[s] + nFail[s]

AllObserved(s) ==
    /\ Seen(s) = num_samples[s]
    /\ \A i \in Indices(s) :
          /\ <<s, i>> \in observed
          /\ job[<<s, i>>].st \in {"Completed", "Failed"}

\* The run has created a directory of split s or submitted a job of it.
Touched(s) ==
    \/ Futures(s) # {}
    \/ {images_dir(s), labels_dir(s)} \cap (dirs \ PriorDirs(prior)) # {}

\* C2: splits are processed strictly sequentially: while a result of a split
\* is still to be observed, no later split has a directory created or a job
\* submitted, and a split is Done only when all its results are observed.
C2_Sequential ==
    /\ \A s \in 1..NumSplits : \A u \in (s + 1)..NumSplits :
          Touched(u) => AllObserved(s)
    /\ \A s \in 1..NumSplits : SplitDone(s) => AllObserved(s)

C2_Witness ==
    \E s \in 1..NumSplits : \E u \in (s + 1)..NumSplits :
        /\ Running(u) # {}
        /\ nFail[s] >= 1

\* C3 as stated: after a run, the images directory of every split holds
\* exactly the files image_00000 .. image_{N-1:05d}, and so does its labels
\* directory.
C3_ExactFiles ==
    pc = "complete" =>
        \A s \in 1..NumSplits :
            /\ FilesIn(s, "images") = {ImageOf(s, i) : i \in Indices(s)}
            /\ FilesIn(s, "labels") = {LabelOf(s, i) : i \in Indices(s)}

\* C3 as amended: after a run that started on an empty output directory,
\* the two directories of a split hold no file but those of the indices
\* 0 .. N-1, and hold exactly those when no job of the split failed.
C3_ExactFilesWhenNoFailure ==
    (pc = "complete" /\ prior = 0) =>
        \A s \in 1..NumSplits :
            /\ FilesIn(s, "images") \subseteq {ImageOf(s, i) : i \in Indices(s)}
            /\ FilesIn(s, "labels") \subseteq {LabelOf(s, i) : i \in Indices(s)}
            /\ FailedIn(s) = {} =>
                  /\ FilesIn(s, "images") = {ImageOf(s, i) : i \in Indices(s)}
                  /\ FilesIn(s, "labels") = {LabelOf(s, i) : i \in Indices(s)}

C3_Witness ==
    /\ pc = "complete"
    /\ prior = 0
    /\ \E s \in 1..NumSplits : num_samples[s] >= 2 /\ FailedIn(s) = {}

Min(a, b) == IF a <= b THEN a ELSE b

\* The radius leaves no room for the circle.
InvalidGeometry ==
    \/ circle_rad > img_width - circle_rad
    \/ 2 * circle_rad >= Min(img_width, img_height)

\* C4: with an invalid geometry the run fails before any job is dispatched
\* and before any file is written, and no later split is processed.
C4_FailFast ==
    InvalidGeometry =>
        /\ \A s \in 1..NumSplits : Futures(s) = {}
        /\ files = PriorFiles(prior)
        /\ \A s \in 2..NumSplits : ~Touched(s)
        /\ pc # "complete"

\* C5: the four fields of every label a job has written lie in [0, 1].
C5_LabelsNormalized ==
    \A p \in DOMAIN files :
        files[p].tag = "label" =>
            \A k \in 1..4 : 0 <= files[p].box[k] /\ files[p].box[k] <= Micro

\* C6: within a split, a progress report is emitted when the number of
\* results observed reaches a multiple of the progress step, whether that
\* result is a success or a failure, and at no other point.
C6_ProgressAtBoundaries ==
    [][\A s \in 1..NumSplits :
          IF Seen(s)' # Seen(s) /\ Seen(s)' % ProgressStep(num_samples[s]) = 0
          THEN reports'[s] = reports[s] \cup {Seen(s)'} /\ reports'[s] # reports[s]
          ELSE reports'[s] = reports[s]]_vars

\* C7: unless a directory cannot be created, the run reaches "generation
\* complete" with every result of every split observed, whichever jobs fail.
C7_RunCompletes ==
    <>(pc = "error" \/ (pc = "complete" /\ \A s \in 1..NumSplits : AllObserved(s)))

C7_Witness ==
    /\ pc = "complete"
    /\ \E s \in 1..NumSplits : \E u \in (s + 1)..NumSplits :
          nFail[s] >= 1 /\ nOK[u] >= 1

\* The list of futures of split s is complete.
SubmitDone(s) == s < cur \/ (s = cur /\ (Collecting \/ pc = "complete"))

\* C8: the jobs dispatched for a split are those of the indices 0 .. N-1,
\* and never more than max_workers jobs are Running.
C8_BoundedParallelism ==
    /\ Cardinality({j \in Slots : job[j].st = "Running"}) <= max_workers
    /\ \A s \in 1..NumSplits :
          /\ {j[2] : j \in Futures(s)} \subseteq Indices(s)
          /\ SubmitDone(s) => {j[2] : j \in Futures(s)} = Indices(s)

C8_Witness ==
    \E s \in 1..NumSplits :
        /\ Cardinality(Running(s)) = max_workers
        /\ \E j \in Futures(s) : job[j].st = "Pending"

\* The two files of the sample of slot j.
OwnFiles(j) == {ImageOf(j[1], j[2]), LabelOf(j[1], j[2])}

\* C9: a step of the job of index i creates or overwrites only
\* image_{i:05d}.png and image_{i:05d}.txt of its split: every other file
\* stays as it was, no file disappears, the set of files is unchanged when
\* both already existed, and no job of another index of the split has a
\* file in common with it.
\* A step of the orchestrator changes no file.
C9_Frame ==
    [][/\ \A j \in Slots :
             job'[j] # job[j] =>
                /\ \A p \in DOMAIN files' :
                      p \notin OwnFiles(j) => p \in DOMAIN files /\ files'[p] = files[p]
                /\ DOMAIN files \subseteq DOMAIN files'
                /\ OwnFiles(j) \subseteq DOMAIN files => DOMAIN files' = DOMAIN files
                /\ \A i \in 0..MaxSamples :
                      i # j[2] => OwnFiles(<<j[1], i>>) \cap OwnFiles(j) = {}
       /\ job' = job => files' = files]_vars

C9_Witness ==
    /\ prior > 0
    /\ \E s \in 1..NumSplits :
          /\ job[<<s, 1>>].st = "Completed"
          /\ files[ImageOf(s, 0)].tag = "png"
          /\ files[LabelOf(s, 0)].tag = "old"

\* C10: in a run started on an empty output directory, a label file exists
\* only if the image file of the same index exists.
C10_ImageBeforeLabel ==
    prior = 0 =>
        \A s \in 1..NumSplits : \A i \in 0..MaxSamples :
            LabelOf(s, i) \in DOMAIN files => ImageOf(s, i) \in DOMAIN files

\* The converse fails: a job that failed at the label write has left its
\* image without a label.
C10_Witness ==
    /\ prior = 0
    /\ \E s \in 1..NumSplits : \E i \in Indices(s) :
          /\ job[<<s, i>>].st = "Failed"
          /\ ImageOf(s, i) \in DOMAIN files
          /\ files[ImageOf(s, i)].tag = "png"
          /\ LabelOf(s, i) \notin DOMAIN files

====
